---- MODULE Spec2Model ----
(***************************************************************************)
(* Model of timm/optim/_optim_factory.py: the OptimizerRegistry (catalog   *)
(* of OptimInfo records keyed by lowercase name, aliases, foreach-default  *)
(* set), its lookup / listing / construction methods, the default          *)
(* registry built at import time and the module-level helpers              *)
(* optimizer_kwargs, create_optimizer_v2 and the legacy create_optimizer.  *)
(*                                                                         *)
(* Python strings that the code inspects (optimizer names, wildcard        *)
(* patterns) are sequences of one-character strings; a dotted class path   *)
(* is the sequence of its dot-separated components.  Python values that    *)
(* are only stored and passed on (floats, bools, None, tuples) are the     *)
(* strings of their repr: "None", "True", "0.0", "0.05", ...  A dict is a  *)
(* function on its key set.                                                *)
(***************************************************************************)
EXTENDS Integers, Sequences, FiniteSets, TLC

VARIABLES
    optimizers,        \* self._optimizers: lowercase name -> OptimInfo
    foreach_defaults,  \* self._foreach_defaults: set of names
    call,              \* the call the client made last (op and arguments)
    result,            \* how that call ended: [op, exc, ret]
    pc,                \* "idle": the client may call; "called": it holds a result
    is_default,        \* whether this registry is the module's default_registry
    nmut               \* number of mutating calls made so far (bounded)

vars == <<optimizers, foreach_defaults, call, result, pc, is_default, nmut>>

\* Bound on the number of register / register_alias / register_foreach_default
\* calls a behaviour makes (after the optional import-time registration).
MaxMutations == 2

(***************************************************************************)
(* Strings                                                                 *)
(***************************************************************************)
LowerAlpha == <<"a","b","c","d","e","f","g","h","i","j","k","l","m",
                "n","o","p","q","r","s","t","u","v","w","x","y","z">>
UpperAlpha == <<"A","B","C","D","E","F","G","H","I","J","K","L","M",
                "N","O","P","Q","R","S","T","U","V","W","X","Y","Z">>

Chars == {LowerAlpha[i] : i \in 1..26} \cup {UpperAlpha[i] : i \in 1..26} \cup {"_", "*", "?"}

\* ord() of the characters the model uses (ASCII).
OrdTable ==
    [c \in Chars |->
        IF \E i \in 1..26 : UpperAlpha[i] = c
        THEN 64 + (CHOOSE i \in 1..26 : UpperAlpha[i] = c)
        ELSE IF \E i \in 1..26 : LowerAlpha[i] = c
        THEN 96 + (CHOOSE i \in 1..26 : LowerAlpha[i] = c)
        ELSE IF c = "_" THEN 95
        ELSE IF c = "*" THEN 42
        ELSE 63]
Ord(c) == OrdTable[c]

\* str.lower() on one character: only "A".."Z" change.
LowerTable ==
    [c \in Chars |->
        IF \E i \in 1..26 : UpperAlpha[i] = c
        THEN LowerAlpha[CHOOSE i \in 1..26 : UpperAlpha[i] = c]
        ELSE c]
lower_char(c) == LowerTable[c]

RECURSIVE lower(_)
\* str.lower()
lower(s) == IF s = <<>> THEN <<>> ELSE <<lower_char(Head(s))>> \o lower(Tail(s))

RECURSIVE split(_, _)
\* str.split(sep) for a one-character separator: the list of segments,
\* empty segments included.
split(s, sep) ==
    IF \A i \in 1..Len(s) : s[i] # sep THEN <<s>>
    ELSE LET i == CHOOSE j \in 1..Len(s) :
                      s[j] = sep /\ \A k \in 1..(j-1) : s[k] # sep
         IN <<SubSeq(s, 1, i-1)>> \o split(SubSeq(s, i+1, Len(s)), sep)

RECURSIVE StrLess(_, _)
\* Python's < on str: lexicographic by code point.
StrLess(a, b) ==
    IF b = <<>> THEN FALSE
    ELSE IF a = <<>> THEN TRUE
    ELSE IF Ord(Head(a)) # Ord(Head(b)) THEN Ord(Head(a)) < Ord(Head(b))
    ELSE StrLess(Tail(a), Tail(b))

(***************************************************************************)
(* Dicts                                                                   *)
(***************************************************************************)
EmptyDict == [k \in {} |-> "None"]

\* d[k] = v
DictSet(d, k, v) == [x \in DOMAIN d \cup {k} |-> IF x = k THEN v ELSE d[x]]

\* d.setdefault(k, v)
setdefault(d, k, v) == IF k \in DOMAIN d THEN d ELSE DictSet(d, k, v)

\* d.pop(k, None)
pop(d, k) == [x \in DOMAIN d \ {k} |-> d[x]]

\* {**a, **b}: b's entries win
DictMerge(a, b) == [x \in DOMAIN a \cup DOMAIN b |-> IF x \in DOMAIN b THEN b[x] ELSE a[x]]

(***************************************************************************)
(* OptimInfo                                                               *)
(***************************************************************************)
\* defaults: Optional[Dict]; None is [none |-> TRUE, d |-> EmptyDict].
NoDefaults == [none |-> TRUE, d |-> EmptyDict]
Defaults(d) == [none |-> FALSE, d |-> d]

\* opt_class: a class, or the dotted path of one as a str.
Class(path) == [is_str |-> FALSE, path |-> path]
ClassStr(path) == [is_str |-> TRUE, path |-> path]

\* The dataclass with its field defaults.
OptimInfo(name, opt_class, description, has_eps, has_momentum, has_betas, num_betas, defaults) ==
    [name |-> name, opt_class |-> opt_class, description |-> description,
     has_eps |-> has_eps, has_momentum |-> has_momentum, has_betas |-> has_betas,
     num_betas |-> num_betas, defaults |-> defaults]

\* Field defaults of the dataclass.
DefaultNumBetas == 2

(***************************************************************************)
(* Names used as inputs                                                    *)
(***************************************************************************)
n_sgd       == <<"s","g","d">>
n_sgdw      == <<"s","g","d","w">>
n_adam      == <<"a","d","a","m">>
n_adagrad   == <<"a","d","a","g","r","a","d">>
n_lion      == <<"l","i","o","n">>
n_fusedsgd  == <<"f","u","s","e","d","s","g","d">>
n_bnbsgd    == <<"b","n","b","s","g","d">>
n_nesterov  == <<"n","e","s","t","e","r","o","v">>
n_nesterovw == <<"n","e","s","t","e","r","o","v","w">>
n_lookahead == <<"l","o","o","k","a","h","e","a","d">>
n_SGD       == <<"S","G","D">>
n_Lion      == <<"L","i","o","n">>
n_MyOpt     == <<"M","y","O","p","t">>
n_my_opt    == <<"m","y","_","o","p","t">>
n_Nest      == <<"N","e","s","t">>
n_nothere   == <<"n","o","p","e">>
n_lazy      == <<"l","a","z","y">>
n_empty     == <<>>
us          == <<"_">>

(***************************************************************************)
(* OptimizerRegistry: mutation                                             *)
(***************************************************************************)
\* OptimizerRegistry.__init__
InitOptimizers == EmptyDict
InitForeachDefaults == {n_lion}

\* Faulty variant of register: the key is the name as given.
register_nolower(opts, info) == DictSet(opts, info.name, info)

\* OptimizerRegistry.register: the catalog after the call.
register(opts, info) == DictSet(opts, lower(info.name), info)

\* Faulty variant of register_alias: the alias gets a copy of the record
\* carrying the alias as its name.
register_alias_renamed(opts, alias, target) ==
    LET t == lower(target) IN
    IF t \notin DOMAIN opts THEN [exc |-> "KeyError", optimizers |-> opts]
    ELSE [exc |-> "none",
          optimizers |-> DictSet(opts, lower(alias), [opts[t] EXCEPT !.name = lower(alias)])]

\* Faulty variant of register_alias: a missing target is ignored silently.
register_alias_silent(opts, alias, target) ==
    LET t == lower(target) IN
    IF t \notin DOMAIN opts THEN [exc |-> "none", optimizers |-> opts]
    ELSE [exc |-> "none", optimizers |-> DictSet(opts, lower(alias), opts[t])]

\* OptimizerRegistry.register_alias: the exception raised ("none" if none)
\* and the catalog after the call.
register_alias(opts, alias, target) ==
    LET t == lower(target) IN
    IF t \notin DOMAIN opts THEN [exc |-> "KeyError", optimizers |-> opts]
    ELSE [exc |-> "none", optimizers |-> DictSet(opts, lower(alias), opts[t])]

\* OptimizerRegistry.register_foreach_default: the set after the call.
register_foreach_default(fd, name) == fd \cup {lower(name)}

RECURSIVE register_all(_, _)
\* for opt in <list>: registry.register(opt)
register_all(opts, infos) ==
    IF infos = <<>> THEN opts ELSE register_all(register(opts, Head(infos)), Tail(infos))

(***************************************************************************)
(* The default table (a subset of the records the module registers)        *)
(***************************************************************************)
NesterovTrue == [k \in {"nesterov"} |-> "True"]

info_sgd == OptimInfo(n_sgd, Class(<<"torch","optim","SGD">>),
    "Stochastic Gradient Descent with Nesterov momentum (default)",
    FALSE, TRUE, FALSE, DefaultNumBetas, Defaults(NesterovTrue))
info_sgdw == OptimInfo(n_sgdw, Class(<<"timm","optim","sgdw","SGDW">>),
    "SGD with decoupled weight decay and Nesterov momentum",
    FALSE, TRUE, FALSE, DefaultNumBetas, Defaults(NesterovTrue))
info_adam == OptimInfo(n_adam, Class(<<"torch","optim","Adam">>),
    "torch.optim Adam (Adaptive Moment Estimation)",
    TRUE, FALSE, TRUE, DefaultNumBetas, NoDefaults)
info_adagrad == OptimInfo(n_adagrad, Class(<<"torch","optim","Adagrad">>),
    "torch.optim Adagrad, Adapts learning rates using cumulative squared gradients",
    TRUE, FALSE, FALSE, DefaultNumBetas, Defaults([k \in {"eps"} |-> "1e-08"]))
info_lion == OptimInfo(n_lion, Class(<<"timm","optim","lion","Lion">>),
    "Evolved Sign Momentum optimizer for improved convergence",
    FALSE, FALSE, TRUE, DefaultNumBetas, NoDefaults)
info_fusedsgd == OptimInfo(n_fusedsgd, ClassStr(<<"apex","optimizers","FusedSGD">>),
    "NVIDIA APEX fused SGD implementation for faster training",
    FALSE, TRUE, FALSE, DefaultNumBetas, Defaults(NesterovTrue))
info_bnbsgd == OptimInfo(n_bnbsgd, ClassStr(<<"bitsandbytes","optim","SGD">>),
    "bitsandbytes SGD",
    FALSE, TRUE, FALSE, DefaultNumBetas, Defaults(NesterovTrue))

\* _register_sgd_variants .. _register_bnb_optimizers, then the two aliases.
default_optimizers ==
    LET regs == register_all(InitOptimizers,
                    <<info_sgd, info_sgdw, info_adam, info_adagrad, info_lion,
                      info_fusedsgd, info_bnbsgd>>)
        a1 == register_alias(regs, n_nesterov, n_sgd).optimizers
    IN register_alias(a1, n_nesterovw, n_sgdw).optimizers

\* registry.register_foreach_default('lion') in _register_other_optimizers
default_foreach_defaults == register_foreach_default(InitForeachDefaults, n_lion)

(***************************************************************************)
(* Records a client registers on top                                       *)
(***************************************************************************)
info_MyOpt == OptimInfo(n_MyOpt, Class(<<"my","MyOpt">>), "mixed-case name, empty defaults",
    TRUE, FALSE, FALSE, DefaultNumBetas, Defaults(EmptyDict))
info_my_opt == OptimInfo(n_my_opt, Class(<<"my","MyOptB">>), "name with an underscore",
    TRUE, TRUE, FALSE, DefaultNumBetas,
    Defaults([k \in {"momentum", "lr", "weight_decay", "betas"} |->
        IF k = "momentum" THEN "0.5" ELSE IF k = "lr" THEN "0.01"
        ELSE IF k = "weight_decay" THEN "0.2" ELSE "(0.8, 0.9)"]))
info_SGD == OptimInfo(n_SGD, Class(<<"my","SGD">>), "replaces sgd",
    FALSE, FALSE, TRUE, DefaultNumBetas,
    Defaults([k \in {"betas", "foreach", "eps", "momentum"} |->
        IF k = "betas" THEN "(0.9, 0.99)" ELSE IF k = "foreach" THEN "False"
        ELSE IF k = "eps" THEN "1e-03" ELSE "0.3"]))
info_lazy == OptimInfo(n_lazy, ClassStr(<<"pkg","Lazy">>), "imported by path",
    FALSE, FALSE, FALSE, DefaultNumBetas, NoDefaults)

RegisterInfos == {info_MyOpt, info_my_opt, info_SGD, info_lazy}
AliasNames    == {n_Nest, n_lion, n_lookahead}
AliasTargets  == {n_SGD, n_Nest, n_nothere, n_MyOpt, n_my_opt}
ForeachNames  == {n_SGD, n_MyOpt}

(***************************************************************************)
(* Actions: construction and mutation                                      *)
(***************************************************************************)
\* How a call ended: the operation, the exception raised ("none" if none)
\* and the value returned.
Outcome(op, r) == [op |-> op, exc |-> r.exc, ret |-> r.ret]
NoResult(op) == [op |-> op, exc |-> "none", ret |-> "None"]

Init ==
    /\ optimizers = InitOptimizers
    /\ foreach_defaults = InitForeachDefaults
    /\ call = [op |-> "none"]
    /\ result = NoResult("none")
    /\ pc = "idle"
    /\ is_default = FALSE
    /\ nmut = 0

\* Module import: default_registry = OptimizerRegistry() followed by
\* _register_default_optimizers().
RegisterDefaultOptimizers ==
    /\ pc = "idle" /\ ~is_default /\ nmut = 0
    /\ optimizers' = default_optimizers
    /\ foreach_defaults' = default_foreach_defaults
    /\ call' = [op |-> "_register_default_optimizers"]
    /\ result' = NoResult("_register_default_optimizers")
    /\ pc' = "called"
    /\ is_default' = TRUE
    /\ UNCHANGED nmut

Register ==
    /\ pc = "idle" /\ nmut < MaxMutations
    /\ \E info \in RegisterInfos :
        /\ optimizers' = register(optimizers, info)
        /\ call' = [op |-> "register", info |-> info]
    /\ result' = NoResult("register")
    /\ pc' = "called"
    /\ nmut' = nmut + 1
    /\ UNCHANGED <<foreach_defaults, is_default>>

RegisterAlias ==
    /\ pc = "idle" /\ nmut < MaxMutations
    /\ \E alias \in AliasNames, target \in AliasTargets :
        LET r == register_alias(optimizers, alias, target) IN
        /\ optimizers' = r.optimizers
        /\ result' = Outcome("register_alias", [exc |-> r.exc, ret |-> "None"])
        /\ call' = [op |-> "register_alias", alias |-> alias, target |-> target]
    /\ pc' = "called"
    /\ nmut' = nmut + 1
    /\ UNCHANGED <<foreach_defaults, is_default>>

RegisterForeachDefault ==
    /\ pc = "idle" /\ nmut < MaxMutations
    /\ \E name \in ForeachNames :
        /\ foreach_defaults' = register_foreach_default(foreach_defaults, name)
        /\ call' = [op |-> "register_foreach_default", name |-> name]
    /\ result' = NoResult("register_foreach_default")
    /\ pc' = "called"
    /\ nmut' = nmut + 1
    /\ UNCHANGED <<optimizers, is_default>>

\* The client is done with the result of its last call and may call again.
Return ==
    /\ pc = "called"
    /\ pc' = "idle"
    /\ call' = [op |-> "none"]
    /\ result' = NoResult("none")
    /\ UNCHANGED <<optimizers, foreach_defaults, is_default, nmut>>

(***************************************************************************)
(* OptimizerRegistry: lookup and listing                                   *)
(***************************************************************************)
RECURSIVE fnmatch(_, _)
\* fnmatch.fnmatch(name, pat) on a case-sensitive platform (os.path.normcase
\* is the identity), for patterns over literals, '*' and '?'.
fnmatch(name, pat) ==
    IF pat = <<>> THEN name = <<>>
    ELSE IF Head(pat) = "*"
         THEN fnmatch(name, Tail(pat)) \/ (name # <<>> /\ fnmatch(Tail(name), pat))
    ELSE IF Head(pat) = "?"
         THEN name # <<>> /\ fnmatch(Tail(name), Tail(pat))
    ELSE name # <<>> /\ Head(name) = Head(pat) /\ fnmatch(Tail(name), Tail(pat))

RECURSIVE sorted(_)
\* sorted(keys): the keys of a dict are distinct, so the ascending order is
\* the one list that repeatedly takes the least remaining key.
sorted(S) ==
    IF S = {} THEN <<>>
    ELSE LET m == CHOOSE x \in S : \A y \in S \ {x} : StrLess(x, y)
         IN <<m>> \o sorted(S \ {m})

RECURSIVE exclude_all(_, _)
\* for exclude_filter in exclude_filters: names = [n for n in names if not fnmatch(...)]
exclude_all(names, exclude_filters) ==
    IF exclude_filters = <<>> THEN names
    ELSE exclude_all(SelectSeq(names, LAMBDA n : ~fnmatch(n, Head(exclude_filters))),
                     Tail(exclude_filters))

\* Faulty variant of list_optimizers: exclude_filters is not applied.
list_optimizers_no_exclude(opts, filter, exclude_filters, with_description) ==
    LET names0 == sorted(DOMAIN opts)
        names1 == IF filter # <<>> THEN SelectSeq(names0, LAMBDA n : fnmatch(n, filter))
                  ELSE names0
    IN IF with_description
       THEN [i \in 1..Len(names1) |-> <<names1[i], opts[names1[i]].description>>]
       ELSE names1

\* OptimizerRegistry.list_optimizers.  exclude_filters is [none, l]: None, or
\* the list l.
list_optimizers(opts, filter, exclude_filters, with_description) ==
    LET names0 == sorted(DOMAIN opts)
        names1 == IF filter # <<>> THEN SelectSeq(names0, LAMBDA n : fnmatch(n, filter))
                  ELSE names0
        names2 == IF ~exclude_filters.none /\ exclude_filters.l # <<>>
                  THEN exclude_all(names1, exclude_filters.l)
                  ELSE names1
    IN IF with_description
       THEN [i \in 1..Len(names2) |-> <<names2[i], opts[names2[i]].description>>]
       ELSE names2

\* Faulty variant of get_optimizer_info: the name is looked up as given.
get_optimizer_info_raw(opts, name) ==
    IF name \notin DOMAIN opts
    THEN [exc |-> "ValueError", ret |-> "None"]
    ELSE [exc |-> "none", ret |-> opts[name]]

\* OptimizerRegistry.get_optimizer_info
get_optimizer_info(opts, name) ==
    LET n == lower(name) IN
    IF n \notin DOMAIN opts
    THEN [exc |-> "ValueError", ret |-> "None"]
    ELSE [exc |-> "none", ret |-> opts[n]]

\* _import_class(class_string) in environment env: "ok", "no_cuda" (CUDA
\* unavailable) or "not_installed" (the module cannot be imported).
\* rsplit(".", 1) of a path without a dot yields one item, and unpacking it
\* into two names raises ValueError, which the except clause does not catch.
import_class(path, env) ==
    IF Len(path) < 2 THEN [exc |-> "ValueError", ret |-> "None"]
    ELSE IF env = "not_installed" THEN [exc |-> "ImportError", ret |-> "None"]
    ELSE [exc |-> "none", ret |-> Class(path)]

\* The isinstance(opt_info.opt_class, str) branch of get_optimizer_class.
resolve_class(opt_class, env) ==
    IF opt_class.is_str
    THEN IF Len(opt_class.path) > 1 /\ opt_class.path[1] \in {"apex", "bitsandbytes"}
         THEN IF env = "no_cuda" THEN [exc |-> "AssertionError", ret |-> "None"]
              ELSE import_class(opt_class.path, env)
         ELSE import_class(opt_class.path, env)
    ELSE [exc |-> "none", ret |-> opt_class]

\* bool(opt_info.defaults)
defaults_truthy(defaults) == ~defaults.none /\ DOMAIN defaults.d # {}

\* Faulty variant of get_optimizer_class: bind_defaults is not consulted.
get_optimizer_class_always_bind(opts, name_or_info, bind_defaults, env) ==
    LET info == IF name_or_info.kind = "str" THEN get_optimizer_info(opts, name_or_info.val)
                ELSE IF name_or_info.kind = "info" THEN [exc |-> "none", ret |-> name_or_info.val]
                ELSE [exc |-> "AssertionError", ret |-> "None"]
    IN IF info.exc # "none" THEN info
       ELSE LET cls == resolve_class(info.ret.opt_class, env) IN
            IF cls.exc # "none" THEN cls
            ELSE IF defaults_truthy(info.ret.defaults)
                 THEN [exc |-> "none",
                       ret |-> [partial |-> TRUE, cls |-> cls.ret, bound |-> info.ret.defaults.d]]
                 ELSE [exc |-> "none",
                       ret |-> [partial |-> FALSE, cls |-> cls.ret, bound |-> EmptyDict]]

\* OptimizerRegistry.get_optimizer_class.  name_or_info is [kind, val] with
\* kind "str", "info" or "other".  The result is the class, or
\* partial(class, **defaults).
get_optimizer_class(opts, name_or_info, bind_defaults, env) ==
    LET info == IF name_or_info.kind = "str" THEN get_optimizer_info(opts, name_or_info.val)
                ELSE IF name_or_info.kind = "info" THEN [exc |-> "none", ret |-> name_or_info.val]
                ELSE [exc |-> "AssertionError", ret |-> "None"]
    IN IF info.exc # "none" THEN info
       ELSE LET cls == resolve_class(info.ret.opt_class, env) IN
            IF cls.exc # "none" THEN cls
            ELSE IF bind_defaults /\ defaults_truthy(info.ret.defaults)
                 THEN [exc |-> "none",
                       ret |-> [partial |-> TRUE, cls |-> cls.ret, bound |-> info.ret.defaults.d]]
                 ELSE [exc |-> "none",
                       ret |-> [partial |-> FALSE, cls |-> cls.ret, bound |-> EmptyDict]]

\* The default of bind_defaults: True for the method, False for the
\* module-level get_optimizer_class.
bind_defaults_default(via) == IF via = "module" THEN FALSE ELSE TRUE

(***************************************************************************)
(* Actions: lookup and listing                                             *)
(***************************************************************************)
LookupNames == {n_sgd, n_SGD, n_Nest, n_nesterov, n_MyOpt, n_my_opt, n_lion,
                n_fusedsgd, n_bnbsgd, n_lazy, n_nothere, n_empty}

Filters == {<<>>, <<"*">>, <<"s","g","d","*">>, <<"*","s","g","d","*">>,
            <<"?","e","s","t","*">>, <<"S","G","D","*">>, <<"m","y","*","o","p","t">>}
ExcludeFilters == {[none |-> TRUE, l |-> <<>>], [none |-> FALSE, l |-> <<>>],
                   [none |-> FALSE, l |-> << <<"*","w">> >>],
                   [none |-> FALSE, l |-> << <<"f","u","s","e","d","*">>, <<"b","n","b","*">> >>],
                   [none |-> FALSE, l |-> << <<"n","e","s","t","*">>, <<"*","s","g","d">>, <<>> >>]}

Envs == {"ok", "no_cuda", "not_installed"}

NameOrInfos ==
    {[kind |-> "str", val |-> n] : n \in LookupNames}
    \cup {[kind |-> "info", val |-> i] :
            i \in {info_sgd, info_adam, info_MyOpt, info_fusedsgd, info_lazy}}
    \cup {[kind |-> "other", val |-> "None"]}

GetOptimizerInfo ==
    /\ pc = "idle"
    /\ \E name \in LookupNames :
        /\ call' = [op |-> "get_optimizer_info", name |-> name]
        /\ result' = Outcome("get_optimizer_info", get_optimizer_info(optimizers, name))
    /\ pc' = "called"
    /\ UNCHANGED <<optimizers, foreach_defaults, is_default, nmut>>

\* OptimizerRegistry.list_optimizers, or the module-level list_optimizers on
\* the default registry.
ListOptimizers ==
    /\ pc = "idle"
    /\ \E filter \in Filters, exclude_filters \in ExcludeFilters,
          with_description \in BOOLEAN, via \in {"method", "module"} :
        /\ via = "module" => is_default
        /\ call' = [op |-> "list_optimizers", via |-> via, filter |-> filter,
                    exclude_filters |-> exclude_filters,
                    with_description |-> with_description]
        /\ result' = Outcome("list_optimizers",
                        [exc |-> "none",
                         ret |-> list_optimizers(optimizers, filter, exclude_filters,
                                                 with_description)])
    /\ pc' = "called"
    /\ UNCHANGED <<optimizers, foreach_defaults, is_default, nmut>>

\* OptimizerRegistry.get_optimizer_class, or the module-level
\* get_optimizer_class(name, bind_defaults=False) on the default registry.
\* bind_arg is "omitted" when the caller leaves bind_defaults out.
GetOptimizerClass ==
    /\ pc = "idle"
    /\ \E name_or_info \in NameOrInfos, bind_arg \in {"omitted", "True", "False"},
          via \in {"method", "module"}, env \in Envs :
        /\ via = "module" => is_default /\ name_or_info.kind = "str"
        /\ LET bind_defaults == IF bind_arg = "omitted" THEN bind_defaults_default(via)
                                ELSE bind_arg = "True"
           IN result' = Outcome("get_optimizer_class",
                        get_optimizer_class(optimizers, name_or_info, bind_defaults, env))
        /\ call' = [op |-> "get_optimizer_class", via |-> via, name_or_info |-> name_or_info,
                    bind_arg |-> bind_arg, env |-> env]
    /\ pc' = "called"
    /\ UNCHANGED <<optimizers, foreach_defaults, is_default, nmut>>

(***************************************************************************)
(* OptimizerRegistry.create_optimizer                                      *)
(***************************************************************************)
\* What "parameters" is bound to: the grouping call made and its arguments
\* ("n/a" where the call takes none).  The grouping functions themselves
\* live in _param_groups and are only called here.
Parameters(fn, weight_decay, layer_decay, weight_decay_exclude_1d) ==
    [fn |-> fn, weight_decay |-> weight_decay, layer_decay |-> layer_decay,
     weight_decay_exclude_1d |-> weight_decay_exclude_1d]

\* bool(x) of a float
float_truthy(x) == x \notin {"0.0", "-0.0"}

\* Faulty variant of param_groups: the layer-decay branch leaves weight_decay
\* as the caller gave it.
param_groups_no_reset(model_or_params, weight_decay, weight_decay_exclude_1d, layer_decay, param_group_fn) ==
    IF model_or_params = "module"
    THEN IF param_group_fn # "None"
         THEN [parameters |-> Parameters("param_group_fn", "n/a", "n/a", "n/a"),
               weight_decay |-> weight_decay]
         ELSE IF layer_decay # "None"
         THEN [parameters |-> Parameters("param_groups_layer_decay", weight_decay, layer_decay,
                                         weight_decay_exclude_1d),
               weight_decay |-> weight_decay]
         ELSE IF float_truthy(weight_decay) /\ weight_decay_exclude_1d = "True"
         THEN [parameters |-> Parameters("param_groups_weight_decay", weight_decay, "n/a", "n/a"),
               weight_decay |-> "0.0"]
         ELSE [parameters |-> Parameters("model.parameters", "n/a", "n/a", "n/a"),
               weight_decay |-> weight_decay]
    ELSE [parameters |-> Parameters("passthrough", "n/a", "n/a", "n/a"),
          weight_decay |-> weight_decay]

\* "Get parameters to optimize": the parameters and the weight_decay left
\* for the optimizer.  model_or_params is "module" (an nn.Module) or
\* "params"; param_group_fn is "None" or a function, which is truthy.
param_groups(model_or_params, weight_decay, weight_decay_exclude_1d, layer_decay, param_group_fn) ==
    IF model_or_params = "module"
    THEN IF param_group_fn # "None"
         THEN [parameters |-> Parameters("param_group_fn", "n/a", "n/a", "n/a"),
               weight_decay |-> weight_decay]
         ELSE IF layer_decay # "None"
         THEN [parameters |-> Parameters("param_groups_layer_decay", weight_decay, layer_decay,
                                         weight_decay_exclude_1d),
               weight_decay |-> "0.0"]
         ELSE IF float_truthy(weight_decay) /\ weight_decay_exclude_1d = "True"
         THEN [parameters |-> Parameters("param_groups_weight_decay", weight_decay, "n/a", "n/a"),
               weight_decay |-> "0.0"]
         ELSE [parameters |-> Parameters("model.parameters", "n/a", "n/a", "n/a"),
               weight_decay |-> weight_decay]
    ELSE [parameters |-> Parameters("passthrough", "n/a", "n/a", "n/a"),
          weight_decay |-> weight_decay]

\* Faulty variant of parse_opt_name: the first segment names the optimizer.
parse_opt_name_first(opt) ==
    LET opt_split == split(lower(opt), "_") IN
    [opt_name |-> opt_split[1],
     use_lookahead |-> IF Len(opt_split) > 1 THEN opt_split[1] = n_lookahead ELSE FALSE]

\* Faulty variant of parse_opt_name: opt is split without lowercasing.
parse_opt_name_cased(opt) ==
    LET opt_split == split(opt, "_") IN
    [opt_name |-> opt_split[Len(opt_split)],
     use_lookahead |-> IF Len(opt_split) > 1 THEN opt_split[1] = n_lookahead ELSE FALSE]

\* "Parse optimizer name"
parse_opt_name(opt) ==
    LET opt_split == split(lower(opt), "_") IN
    [opt_name |-> opt_split[Len(opt_split)],
     use_lookahead |-> IF Len(opt_split) > 1 THEN opt_split[1] = n_lookahead ELSE FALSE]

RECURSIVE setdefault_all(_, _, _)
\* for k, v in defaults.items(): opt_args.setdefault(k, v)
setdefault_all(d, defaults, keys) ==
    IF keys = {} THEN d
    ELSE LET k == CHOOSE x \in keys : TRUE
         IN setdefault_all(setdefault(d, k, defaults[k]), defaults, keys \ {k})

\* Faulty variant of build_opt_args: the record's defaults overwrite what the
\* caller gave (opt_args.update(defaults) in place of setdefault).
build_opt_args_defaults_win(opt_info, weight_decay, lr, momentum, foreach, kwargs) ==
    LET a0 == DictMerge([k \in {"weight_decay"} |-> weight_decay], kwargs)
        a1 == IF lr # "None" THEN DictSet(a0, "lr", lr) ELSE a0
        a2 == IF defaults_truthy(opt_info.defaults)
              THEN DictMerge(a1, opt_info.defaults.d)
              ELSE a1
        a3 == IF opt_info.has_momentum THEN setdefault(a2, "momentum", momentum) ELSE a2
        a4 == IF ~opt_info.has_eps THEN pop(a3, "eps") ELSE a3
        a5 == IF ~opt_info.has_betas THEN pop(a4, "betas") ELSE a4
    IN IF foreach # "None" THEN setdefault(a5, "foreach", foreach) ELSE a5

\* Faulty variant of build_opt_args: 'eps' and 'betas' are passed on whatever
\* the capability flags say.
build_opt_args_ungated(opt_info, weight_decay, lr, momentum, foreach, kwargs) ==
    LET a0 == DictMerge([k \in {"weight_decay"} |-> weight_decay], kwargs)
        a1 == IF lr # "None" THEN DictSet(a0, "lr", lr) ELSE a0
        a2 == IF defaults_truthy(opt_info.defaults)
              THEN setdefault_all(a1, opt_info.defaults.d, DOMAIN opt_info.defaults.d)
              ELSE a1
        a3 == IF opt_info.has_momentum THEN setdefault(a2, "momentum", momentum) ELSE a2
    IN IF foreach # "None" THEN setdefault(a3, "foreach", foreach) ELSE a3

\* "Build optimizer arguments" .. the foreach setting: the keyword
\* arguments the optimizer class is called with.
build_opt_args(opt_info, weight_decay, lr, momentum, foreach, kwargs) ==
    LET a0 == DictMerge([k \in {"weight_decay"} |-> weight_decay], kwargs)
        a1 == IF lr # "None" THEN DictSet(a0, "lr", lr) ELSE a0
        a2 == IF defaults_truthy(opt_info.defaults)
              THEN setdefault_all(a1, opt_info.defaults.d, DOMAIN opt_info.defaults.d)
              ELSE a1
        a3 == IF opt_info.has_momentum THEN setdefault(a2, "momentum", momentum) ELSE a2
        a4 == IF ~opt_info.has_eps THEN pop(a3, "eps") ELSE a3
        a5 == IF ~opt_info.has_betas THEN pop(a4, "betas") ELSE a4
    IN IF foreach # "None" THEN setdefault(a5, "foreach", foreach) ELSE a5

\* The value of a parameter: the signature's default when the caller
\* omitted the argument.
arg_or_default(v, default) == IF v = "omitted" THEN default ELSE v

\* momentum: float = 0.9
momentum_default == "0.9"

\* OptimizerRegistry.create_optimizer with arguments a.  The optimizer built
\* is [lookahead, cls, parameters, opt_args]: whether it is wrapped in
\* Lookahead, and what the class was called with.
create_optimizer(opts, a, env) ==
    LET g    == param_groups(a.model_or_params, a.weight_decay, a.weight_decay_exclude_1d,
                             a.layer_decay, a.param_group_fn)
        p    == parse_opt_name(a.opt)
        info == get_optimizer_info(opts, p.opt_name)
    IN IF info.exc # "none" THEN info
       ELSE LET opt_args == build_opt_args(info.ret, g.weight_decay, a.lr,
                                           arg_or_default(a.momentum, momentum_default),
                                           a.foreach, a.kwargs)
                cls == get_optimizer_class(opts, [kind |-> "info", val |-> info.ret], FALSE, env)
            IN IF cls.exc # "none" THEN cls
               ELSE [exc |-> "none",
                     ret |-> [lookahead |-> p.use_lookahead, cls |-> cls.ret.cls,
                              partial |-> cls.ret.partial,
                              parameters |-> g.parameters, opt_args |-> opt_args]]

\* Faulty variant of defaults_after_build: opt_args is the record's defaults
\* dict itself, so what is written to opt_args is written to the record.
defaults_after_build_aliased(opt_info, opt_args) ==
    IF defaults_truthy(opt_info.defaults) THEN Defaults(opt_args) ELSE opt_info.defaults

\* The record's defaults dict after "Build optimizer arguments": opt_args is
\* a dict of its own, created by the dict display, and is the only dict the
\* assignment, setdefault and pop write to; defaults is only iterated.
defaults_after_build(opt_info, opt_args) == opt_info.defaults

\* The catalog when the defaults dict of the record info holds defaults: the
\* dict belongs to the record object, which every name given to it shares.
store_defaults(opts, info, defaults) ==
    [k \in DOMAIN opts |-> IF opts[k] = info THEN [info EXCEPT !.defaults = defaults]
                            ELSE opts[k]]

\* The catalog OptimizerRegistry.create_optimizer leaves behind.  The
\* arguments are built before the class is resolved, so a failing import
\* does not change what was written.
create_optimizer_registry(opts, a) ==
    LET g    == param_groups(a.model_or_params, a.weight_decay, a.weight_decay_exclude_1d,
                             a.layer_decay, a.param_group_fn)
        p    == parse_opt_name(a.opt)
        info == get_optimizer_info(opts, p.opt_name)
    IN IF info.exc # "none" THEN opts
       ELSE LET opt_args == build_opt_args(info.ret, g.weight_decay, a.lr,
                                           arg_or_default(a.momentum, momentum_default),
                                           a.foreach, a.kwargs)
            IN store_defaults(opts, info.ret, defaults_after_build(info.ret, opt_args))

(***************************************************************************)
(* Arguments of create_optimizer                                           *)
(***************************************************************************)
OptNames ==
    {n_sgd, n_Lion, n_adam, n_adagrad, n_my_opt, n_MyOpt, n_nothere, n_lookahead,
     n_fusedsgd, n_lazy,
     n_lookahead \o us \o n_sgd,
     <<"L","o","o","k","A","h","e","a","d">> \o us \o n_Lion,
     <<"f","o","o">> \o us \o n_sgd,
     n_lookahead \o us \o n_nothere,
     n_lookahead \o us \o n_my_opt,
     n_sgd \o us \o n_lookahead,
     n_lookahead \o us \o <<"f","o","o">> \o us \o n_adam,
     n_lookahead \o us}

KwargsSet ==
    {EmptyDict,
     [k \in {"eps", "betas"} |-> IF k = "eps" THEN "1e-06" ELSE "(0.5, 0.6)"],
     [k \in {"nesterov"} |-> "False"]}

CreateArgs(model_or_params, opt, lr, weight_decay, momentum, foreach, weight_decay_exclude_1d, layer_decay, param_group_fn, kwargs) ==
    [model_or_params |-> model_or_params, opt |-> opt, lr |-> lr,
     weight_decay |-> weight_decay, momentum |-> momentum, foreach |-> foreach,
     weight_decay_exclude_1d |-> weight_decay_exclude_1d, layer_decay |-> layer_decay,
     param_group_fn |-> param_group_fn, kwargs |-> kwargs]

\* Every combination of the arguments that decide the parameter grouping.
GroupingCalls ==
    {CreateArgs(m, opt, "None", wd, "0.9", "None", x1d, ld, fn, EmptyDict) :
        m \in {"module", "params"}, opt \in {n_sgd, n_nothere}, wd \in {"0.0", "0.05"},
        x1d \in {"True", "False"}, ld \in {"None", "0.0", "0.75"}, fn \in {"None", "fn"}}

\* Every name, with foreach given or not.
NameCalls ==
    {CreateArgs("params", opt, "None", "0.0", "0.9", fe, "True", "None", "None", EmptyDict) :
        opt \in OptNames, fe \in {"None", "True", "False"}}

\* Every combination of the arguments that end in the optimizer's keywords.
KeywordCalls ==
    {CreateArgs("params", opt, lr, "0.05", mom, fe, "True", "None", "None", kw) :
        opt \in {n_sgd, n_adam, n_adagrad, n_Lion, n_Nest, n_my_opt \o us \o n_MyOpt},
        lr \in {"None", "0.1"}, mom \in {"omitted", "0.0"}, fe \in {"None", "True", "False"},
        kw \in KwargsSet}

CreateCalls == GroupingCalls \cup NameCalls \cup KeywordCalls

CreateOptimizer ==
    /\ pc = "idle"
    /\ \E a \in CreateCalls, env \in Envs :
        /\ env # "ok" => a \in NameCalls /\ a.foreach = "None"
        /\ call' = [op |-> "create_optimizer", a |-> a, env |-> env]
        /\ result' = Outcome("create_optimizer", create_optimizer(optimizers, a, env))
        /\ optimizers' = create_optimizer_registry(optimizers, a)
    /\ pc' = "called"
    /\ UNCHANGED <<foreach_defaults, is_default, nmut>>

(***************************************************************************)
(* Module-level helpers: optimizer_kwargs, create_optimizer_v2 and the      *)
(* legacy create_optimizer                                                  *)
(***************************************************************************)
\* A cfg / argparse namespace: has is the set of attributes it carries, and
\* each attribute it carries has its value in the field of that name (the
\* other fields hold a filler that is never read).  opt_args is an
\* Optional[dict], written like the defaults of a record.
BaseAttrs == {"opt", "lr", "weight_decay", "momentum"}

Cfg(has, opt, lr, weight_decay, momentum, opt_eps, opt_betas, layer_decay, opt_args, opt_foreach) ==
    [has |-> has, opt |-> opt, lr |-> lr, weight_decay |-> weight_decay,
     momentum |-> momentum, opt_eps |-> opt_eps, opt_betas |-> opt_betas,
     layer_decay |-> layer_decay, opt_args |-> opt_args, opt_foreach |-> opt_foreach]

\* getattr(cfg, attr, None) is not None, for an attribute holding a value
attr_given(cfg, attr) == attr \in cfg.has /\ cfg[attr] # "None"

\* getattr(cfg, 'opt_args', None) is not None
opt_args_given(cfg) == "opt_args" \in cfg.has /\ ~cfg.opt_args.none

\* Faulty variant of optimizer_kwargs: cfg.opt_args is merged last, after
\* cfg.opt_foreach.
optimizer_kwargs_args_last(cfg) ==
    IF ~(BaseAttrs \subseteq cfg.has) THEN [exc |-> "AttributeError", ret |-> "None"]
    ELSE LET k0 == [k \in BaseAttrs |-> cfg[k]]
             k1 == IF attr_given(cfg, "opt_eps") THEN DictSet(k0, "eps", cfg.opt_eps) ELSE k0
             k2 == IF attr_given(cfg, "opt_betas") THEN DictSet(k1, "betas", cfg.opt_betas) ELSE k1
             k3 == IF attr_given(cfg, "layer_decay")
                   THEN DictSet(k2, "layer_decay", cfg.layer_decay) ELSE k2
             k4 == IF attr_given(cfg, "opt_foreach")
                   THEN DictSet(k3, "foreach", cfg.opt_foreach) ELSE k3
             k5 == IF opt_args_given(cfg) THEN DictMerge(k4, cfg.opt_args.d) ELSE k4
         IN [exc |-> "none", ret |-> k5]

\* optimizer_kwargs(cfg): cfg.opt .. cfg.momentum are read directly (a
\* missing one is an AttributeError), the others through getattr.
optimizer_kwargs(cfg) ==
    IF ~(BaseAttrs \subseteq cfg.has) THEN [exc |-> "AttributeError", ret |-> "None"]
    ELSE LET k0 == [k \in BaseAttrs |-> cfg[k]]
             k1 == IF attr_given(cfg, "opt_eps") THEN DictSet(k0, "eps", cfg.opt_eps) ELSE k0
             k2 == IF attr_given(cfg, "opt_betas") THEN DictSet(k1, "betas", cfg.opt_betas) ELSE k1
             k3 == IF attr_given(cfg, "layer_decay")
                   THEN DictSet(k2, "layer_decay", cfg.layer_decay) ELSE k2
             k4 == IF opt_args_given(cfg) THEN DictMerge(k3, cfg.opt_args.d) ELSE k3
             k5 == IF attr_given(cfg, "opt_foreach")
                   THEN DictSet(k4, "foreach", cfg.opt_foreach) ELSE k4
         IN [exc |-> "none", ret |-> k5]

\* kw.get(k, default): how a keyword dict binds to a parameter with a default
kwarg(kw, k, default) == IF k \in DOMAIN kw THEN kw[k] ELSE default

\* The parameters create_optimizer_v2 names besides model_or_params and
\* filter_bias_and_bn; every other keyword lands in its **kwargs.
V2Named == {"opt", "lr", "weight_decay", "momentum", "foreach", "layer_decay", "param_group_fn"}

\* create_optimizer_v2(model_or_params, **kw, filter_bias_and_bn=...) on the
\* default registry.
v2_kwargs(kw) == [k \in DOMAIN kw \ V2Named |-> kw[k]]

\* A keyword in **kwargs that create_optimizer_v2 also passes by name.
v2_duplicate(kw) ==
    "weight_decay_exclude_1d" \in DOMAIN v2_kwargs(kw) \/ "model_or_params" \in DOMAIN v2_kwargs(kw)

\* The arguments create_optimizer_v2 hands to default_registry.create_optimizer.
v2_args(model_or_params, kw, filter_bias_and_bn) ==
    CreateArgs(model_or_params, kwarg(kw, "opt", n_sgd), kwarg(kw, "lr", "None"),
               kwarg(kw, "weight_decay", "0.0"), kwarg(kw, "momentum", "omitted"),
               kwarg(kw, "foreach", "None"), filter_bias_and_bn,
               kwarg(kw, "layer_decay", "None"), kwarg(kw, "param_group_fn", "None"),
               v2_kwargs(kw))

create_optimizer_v2(opts, model_or_params, kw, filter_bias_and_bn, env) ==
    IF v2_duplicate(kw) THEN [exc |-> "TypeError", ret |-> "None"]
    ELSE create_optimizer(opts, v2_args(model_or_params, kw, filter_bias_and_bn), env)

\* The catalog create_optimizer_v2 leaves behind.
create_optimizer_v2_registry(opts, model_or_params, kw, filter_bias_and_bn) ==
    IF v2_duplicate(kw) THEN opts
    ELSE create_optimizer_registry(opts, v2_args(model_or_params, kw, filter_bias_and_bn))

\* The legacy create_optimizer(args, model, filter_bias_and_bn): a keyword
\* given twice in the call to create_optimizer_v2 is a TypeError.
create_optimizer_legacy(opts, args, model, filter_bias_and_bn, env) ==
    LET kw == optimizer_kwargs(args) IN
    IF kw.exc # "none" THEN kw
    ELSE IF "filter_bias_and_bn" \in DOMAIN kw.ret \/ "model_or_params" \in DOMAIN kw.ret
    THEN [exc |-> "TypeError", ret |-> "None"]
    ELSE create_optimizer_v2(opts, model, kw.ret, filter_bias_and_bn, env)

\* The catalog the legacy create_optimizer leaves behind.
create_optimizer_legacy_registry(opts, args, model, filter_bias_and_bn) ==
    LET kw == optimizer_kwargs(args) IN
    IF kw.exc # "none" THEN opts
    ELSE IF "filter_bias_and_bn" \in DOMAIN kw.ret \/ "model_or_params" \in DOMAIN kw.ret
    THEN opts
    ELSE create_optimizer_v2_registry(opts, model, kw.ret, filter_bias_and_bn)

\* Dicts given as cfg.opt_args.
OptArgsOverride ==
    [k \in {"eps", "foreach", "lr", "nesterov"} |->
        IF k = "eps" THEN "1e-03" ELSE IF k = "foreach" THEN "False"
        ELSE IF k = "lr" THEN "0.2" ELSE "False"]
OptArgsDup == [k \in {"filter_bias_and_bn"} |-> "False"]

\* opt_args absent, None, {} or a dict
OptArgsChoices ==
    {[has |-> FALSE, v |-> NoDefaults], [has |-> TRUE, v |-> NoDefaults],
     [has |-> TRUE, v |-> Defaults(EmptyDict)], [has |-> TRUE, v |-> Defaults(OptArgsOverride)]}

\* The attributes a cfg carries, from its base attributes and which of the
\* optional ones are "absent".
HasAttrs(base, opt_eps, opt_betas, layer_decay, opt_args_has, opt_foreach) ==
    base \cup (IF opt_eps # "absent" THEN {"opt_eps"} ELSE {})
         \cup (IF opt_betas # "absent" THEN {"opt_betas"} ELSE {})
         \cup (IF layer_decay # "absent" THEN {"layer_decay"} ELSE {})
         \cup (IF opt_args_has THEN {"opt_args"} ELSE {})
         \cup (IF opt_foreach # "absent" THEN {"opt_foreach"} ELSE {})

MakeCfg(base, opt, lr, opt_eps, opt_betas, layer_decay, oa, opt_foreach) ==
    Cfg(HasAttrs(base, opt_eps, opt_betas, layer_decay, oa.has, opt_foreach),
        opt, lr, "0.05", "0.9", opt_eps, opt_betas, layer_decay, oa.v, opt_foreach)

\* Every combination of the optional attributes, without opt_args.
AttrCfgs ==
    {MakeCfg(BaseAttrs, n_sgd, "0.1", e, b, ld, [has |-> FALSE, v |-> NoDefaults], fe) :
        e \in {"absent", "None", "1e-06"}, b \in {"absent", "(0.5, 0.6)"},
        ld \in {"None", "0.75"}, fe \in {"absent", "None", "True"}}

\* Every form of opt_args, against opt_eps and opt_foreach.
ArgsCfgs ==
    {MakeCfg(BaseAttrs, n_sgd, "None", e, "absent", "absent", oa, fe) :
        e \in {"None", "1e-06"}, oa \in OptArgsChoices, fe \in {"absent", "None", "True"}}

\* A cfg lacking one of the attributes that are read directly.
MissingCfgs ==
    {MakeCfg(BaseAttrs \ {m}, n_sgd, "0.1", "1e-06", "absent", "absent",
             [has |-> FALSE, v |-> NoDefaults], "absent") : m \in BaseAttrs}

Cfgs == AttrCfgs \cup ArgsCfgs \cup MissingCfgs

\* The cfgs given to the legacy create_optimizer.
LegacyCfgs ==
    {MakeCfg(BaseAttrs, opt, "0.1", "1e-06", "absent", ld, oa, fe) :
        opt \in {n_sgd, n_lookahead \o us \o n_adam}, ld \in {"None", "0.75"},
        oa \in {[has |-> FALSE, v |-> NoDefaults], [has |-> TRUE, v |-> Defaults(OptArgsOverride)],
                [has |-> TRUE, v |-> Defaults(OptArgsDup)]},
        fe \in {"None", "True"}}
    \cup {MakeCfg(BaseAttrs \ {"opt"}, n_sgd, "0.1", "1e-06", "absent", "absent",
                  [has |-> FALSE, v |-> NoDefaults], "absent")}

OptimizerKwargs ==
    /\ pc = "idle"
    /\ \E cfg \in Cfgs :
        /\ call' = [op |-> "optimizer_kwargs", cfg |-> cfg]
        /\ result' = Outcome("optimizer_kwargs", optimizer_kwargs(cfg))
    /\ pc' = "called"
    /\ UNCHANGED <<optimizers, foreach_defaults, is_default, nmut>>

\* The legacy create_optimizer works on the default registry.
LegacyCreateOptimizer ==
    /\ pc = "idle" /\ is_default
    /\ \E args \in LegacyCfgs, model \in {"module", "params"}, fbb \in {"True", "False"} :
        /\ call' = [op |-> "create_optimizer_legacy", args |-> args, model |-> model,
                    filter_bias_and_bn |-> fbb]
        /\ result' = Outcome("create_optimizer_legacy",
                             create_optimizer_legacy(optimizers, args, model, fbb, "ok"))
        /\ optimizers' = create_optimizer_legacy_registry(optimizers, args, model, fbb)
    /\ pc' = "called"
    /\ UNCHANGED <<foreach_defaults, is_default, nmut>>

Next ==
    \/ RegisterDefaultOptimizers
    \/ Register
    \/ RegisterAlias
    \/ RegisterForeachDefault
    \/ GetOptimizerInfo
    \/ ListOptimizers
    \/ GetOptimizerClass
    \/ CreateOptimizer
    \/ OptimizerKwargs
    \/ LegacyCreateOptimizer
    \/ Return

Spec == Init /\ [][Next]_vars

(***************************************************************************)
(* Properties                                                              *)
(***************************************************************************)

\* C1: every key of the catalog and every member of the foreach-default set
\* equals its own lower() form, whatever case the callers used.
C1_KeysLowercase ==
    /\ \A k \in DOMAIN optimizers : k = lower(k)
    /\ \A n \in foreach_defaults : n = lower(n)

\* C1 witness: on the default registry an alias was registered under the
\* mixed-case name 'Nest' and then register_foreach_default('SGD') was called.
C1_Witness ==
    /\ call.op = "register_foreach_default" /\ call.name = n_SGD
    /\ lower(n_SGD) \in foreach_defaults
    /\ lower(n_Nest) \in DOMAIN optimizers
    /\ n_SGD # lower(n_SGD)

\* C2: when target.lower() is registered, right after register_alias(alias,
\* target) get_optimizer_info(alias) and get_optimizer_info(target) both
\* succeed and return the same record, the one the target had before the
\* call; and in the default registry after its import-time registration
\* 'nesterov' is the record of 'sgd' and 'nesterovw' the record of 'sgdw'.
C2_AliasSameRecord ==
    [][ /\ (pc = "idle" /\ call'.op = "register_alias"
                /\ lower(call'.target) \in DOMAIN optimizers)
           => LET a == get_optimizer_info(optimizers', call'.alias)
                  t == get_optimizer_info(optimizers', call'.target)
              IN /\ a.exc = "none" /\ t.exc = "none"
                 /\ a.ret = t.ret
                 /\ a.ret = optimizers[lower(call'.target)]
        /\ (call'.op = "_register_default_optimizers")
           => /\ get_optimizer_info(optimizers', n_nesterov)
                    = get_optimizer_info(optimizers', n_sgd)
              /\ get_optimizer_info(optimizers', n_nesterov).ret.name = n_sgd
              /\ get_optimizer_info(optimizers', n_nesterovw)
                    = get_optimizer_info(optimizers', n_sgdw)
              /\ get_optimizer_info(optimizers', n_nesterovw).ret.name = n_sgdw
      ]_vars

\* C2 witness: register_alias('Nest', 'SGD') succeeded on the default
\* registry; the entry 'nest' holds the record named 'sgd'.
C2_Witness ==
    /\ call.op = "register_alias" /\ result.exc = "none"
    /\ call.alias = n_Nest /\ call.target = n_SGD
    /\ is_default
    /\ optimizers[lower(n_Nest)].name = n_sgd

\* C3: register_alias(alias, target) with target.lower() not registered
\* raises KeyError and leaves the catalog and the foreach-default set as
\* they were.
C3_AliasMissingTarget ==
    [][ (pc = "idle" /\ call'.op = "register_alias"
            /\ lower(call'.target) \notin DOMAIN optimizers)
        => /\ result'.exc = "KeyError"
           /\ optimizers' = optimizers
           /\ foreach_defaults' = foreach_defaults
      ]_vars

\* C3 witness: register_alias raised KeyError for an alias name that is
\* already a key of the catalog.
C3_Witness ==
    /\ call.op = "register_alias" /\ result.exc = "KeyError"
    /\ lower(call.target) \notin DOMAIN optimizers
    /\ lower(call.alias) \in DOMAIN optimizers

\* C4: get_optimizer_info(name) returns the record stored under name.lower()
\* when that key is registered and raises ValueError otherwise.
C4_GetInfoCaseInsensitive ==
    call.op = "get_optimizer_info" =>
        IF lower(call.name) \in DOMAIN optimizers
        THEN result.exc = "none" /\ result.ret = optimizers[lower(call.name)]
        ELSE result.exc = "ValueError"

\* C4 witness: a lookup by a name with upper-case letters found the record.
C4_Witness ==
    /\ call.op = "get_optimizer_info" /\ call.name = n_SGD
    /\ result.exc = "none" /\ result.ret = optimizers[n_sgd]

\* The last '_'-separated segment of opt.lower(), and whether opt.lower()
\* has several segments of which the first is 'lookahead'.
LastSegment(opt) == LET segs == split(lower(opt), "_") IN segs[Len(segs)]
LookaheadPrefixed(opt) ==
    LET segs == split(lower(opt), "_") IN Len(segs) > 1 /\ segs[1] = n_lookahead

\* C5 as claimed: whenever opt.lower() is neither a registered name nor
\* 'lookahead_' followed by a registered name, create_optimizer raises
\* ValueError.
C5_Original ==
    (call.op = "create_optimizer"
        /\ lower(call.a.opt) \notin DOMAIN optimizers
        /\ ~\E n \in DOMAIN optimizers : lower(call.a.opt) = n_lookahead \o us \o n)
    => result.exc = "ValueError"

\* C5 amended: whenever the last '_'-separated segment of opt.lower() is not
\* a registered name, create_optimizer raises ValueError and builds nothing.
C5_UnknownLastSegment ==
    (call.op = "create_optimizer" /\ LastSegment(call.a.opt) \notin DOMAIN optimizers)
    => result.exc = "ValueError" /\ result.ret = "None"

\* C5 witness: 'my_opt' is a registered name, yet create_optimizer('my_opt')
\* raised ValueError because its last segment 'opt' is not registered.
C5_Witness ==
    /\ call.op = "create_optimizer" /\ call.a.opt = n_my_opt
    /\ n_my_opt \in DOMAIN optimizers
    /\ result.exc = "ValueError"

\* C6: a created optimizer is wrapped in Lookahead iff the lowercased opt has
\* more than one '_'-separated segment and the first is 'lookahead'; its
\* base optimizer is of the class registered under the last segment.
C6_LookaheadIff ==
    (call.op = "create_optimizer" /\ result.exc = "none")
    => /\ result.ret.lookahead <=> LookaheadPrefixed(call.a.opt)
       /\ LastSegment(call.a.opt) \in DOMAIN optimizers
       /\ result.ret.cls.path = optimizers[LastSegment(call.a.opt)].opt_class.path
       /\ Len(split(lower(call.a.opt), "_")) = 1 => ~result.ret.lookahead

\* C6 witness: 'LookAhead_Lion' built a Lookahead around Lion.
C6_Witness ==
    /\ call.op = "create_optimizer" /\ result.exc = "none"
    /\ call.a.opt # lower(call.a.opt)
    /\ result.ret.lookahead
    /\ result.ret.cls.path = info_lion.opt_class.path

\* C7 as claimed: for a name in the foreach-default set, with foreach None,
\* the optimizer class receives foreach=True.
C7_ForeachDefault ==
    (call.op = "create_optimizer" /\ result.exc = "none"
        /\ LastSegment(call.a.opt) \in foreach_defaults
        /\ call.a.foreach = "None" /\ "foreach" \notin DOMAIN call.a.kwargs)
    => /\ "foreach" \in DOMAIN result.ret.opt_args
       /\ result.ret.opt_args["foreach"] = "True"

\* The names (aliases included) list_optimizers is to return.
ListedNames(filter, exclude_filters) ==
    {n \in DOMAIN optimizers :
        /\ filter = <<>> \/ fnmatch(n, filter)
        /\ exclude_filters.none
            \/ \A i \in 1..Len(exclude_filters.l) : ~fnmatch(n, exclude_filters.l[i])}

\* C8: list_optimizers returns, ascending and without duplicates, exactly
\* the registered names that match filter (all when it is empty) and none
\* of exclude_filters; with with_description each entry is the pair of the
\* name and the description of the record stored under it.
C8_ListOptimizers ==
    call.op = "list_optimizers" =>
        LET ret == result.ret
            names == IF call.with_description
                     THEN [i \in 1..Len(ret) |-> ret[i][1]] ELSE ret
        IN /\ result.exc = "none"
           /\ \A i, j \in 1..Len(names) : i < j => StrLess(names[i], names[j])
           /\ {names[i] : i \in 1..Len(names)}
                = ListedNames(call.filter, call.exclude_filters)
           /\ call.with_description =>
                \A i \in 1..Len(ret) :
                    ret[i] = <<names[i], optimizers[names[i]].description>>

\* C8 witness: a listing with a filter, an exclusion and descriptions that
\* returns several names, an alias among them, and leaves out a match of
\* the filter.
C8_Witness ==
    /\ call.op = "list_optimizers" /\ call.with_description
    /\ call.filter = <<"?","e","s","t","*">>
    /\ call.exclude_filters = [none |-> FALSE, l |-> << <<"*","w">> >>]
    /\ Len(result.ret) = 2
    /\ result.ret[2][1] = n_nesterov
    /\ n_nesterovw \in DOMAIN optimizers

\* The grouping the priority order selects.
ExpectedGrouping(a) ==
    IF a.model_or_params # "module" THEN "passthrough"
    ELSE IF a.param_group_fn # "None" THEN "param_group_fn"
    ELSE IF a.layer_decay # "None" THEN "param_groups_layer_decay"
    ELSE IF a.weight_decay # "0.0" /\ a.weight_decay_exclude_1d = "True"
         THEN "param_groups_weight_decay"
    ELSE "model.parameters"

\* C9 as claimed: the grouping follows the priority order, and the
\* weight_decay the class receives is 0 exactly when the layer-decay or the
\* weight-decay-exclusion grouping was chosen.
C9_Original ==
    (call.op = "create_optimizer" /\ result.exc = "none")
    => /\ result.ret.parameters.fn = ExpectedGrouping(call.a)
       /\ result.ret.opt_args["weight_decay"] = "0.0"
            <=> result.ret.parameters.fn
                    \in {"param_groups_layer_decay", "param_groups_weight_decay"}

\* C9 amended: the grouping follows the priority order; the weight_decay the
\* class receives is 0 whenever the layer-decay or the weight-decay-exclusion
\* grouping was chosen (which then carries the caller's weight_decay), and
\* is the caller's weight_decay otherwise.
C9_GroupingPriority ==
    (call.op = "create_optimizer" /\ result.exc = "none")
    => LET p == result.ret.parameters IN
       /\ p.fn = ExpectedGrouping(call.a)
       /\ p.fn \in {"param_groups_layer_decay", "param_groups_weight_decay"}
            => /\ result.ret.opt_args["weight_decay"] = "0.0"
               /\ p.weight_decay = call.a.weight_decay
       /\ p.fn \notin {"param_groups_layer_decay", "param_groups_weight_decay"}
            => result.ret.opt_args["weight_decay"] = call.a.weight_decay

\* C9 witness: a model with layer_decay 0.0 (not None), a non-zero
\* weight_decay and no param_group_fn got the layer-decay grouping and
\* weight_decay 0.
C9_Witness ==
    /\ call.op = "create_optimizer" /\ result.exc = "none"
    /\ call.a.model_or_params = "module" /\ call.a.param_group_fn = "None"
    /\ call.a.layer_decay = "0.0" /\ call.a.weight_decay = "0.05"
    /\ result.ret.parameters.fn = "param_groups_layer_decay"
    /\ result.ret.opt_args["weight_decay"] = "0.0"

RecordOf(opt) == optimizers[LastSegment(opt)]
DefaultsOf(info) == IF info.defaults.none THEN EmptyDict ELSE info.defaults.d
Gated(info) ==
    (IF info.has_eps THEN {} ELSE {"eps"}) \cup (IF info.has_betas THEN {} ELSE {"betas"})

\* C11: in the arguments the class is called with, a key of the caller's
\* kwargs has the caller's value (and is present unless the capability flags
\* remove it), 'lr' is the caller's lr when that is not None, a key of the
\* record's defaults has the default's value only if the caller gave no such
\* key, 'lr' is present iff lr is not None or the defaults define it, and
\* 'foreach' is present iff kwargs or the defaults define it or the foreach
\* parameter is not None, the parameter's value being used only in the
\* last case.
C11_ArgsPrecedence ==
    (call.op = "create_optimizer" /\ result.exc = "none")
    => LET a     == call.a
           info  == RecordOf(a.opt)
           dflt  == DefaultsOf(info)
           args  == result.ret.opt_args
           given == DOMAIN a.kwargs \cup {"weight_decay"}
                        \cup (IF a.lr # "None" THEN {"lr"} ELSE {})
       IN /\ \A k \in DOMAIN a.kwargs :
                /\ k \in DOMAIN args => args[k] = a.kwargs[k]
                /\ k \notin Gated(info) => k \in DOMAIN args
          /\ a.lr # "None" => "lr" \in DOMAIN args /\ args["lr"] = a.lr
          /\ \A k \in DOMAIN dflt \ (given \cup Gated(info)) :
                k \in DOMAIN args /\ args[k] = dflt[k]
          /\ "lr" \in DOMAIN args <=> (a.lr # "None" \/ "lr" \in DOMAIN dflt)
          /\ "foreach" \in DOMAIN args
                <=> (a.foreach # "None" \/ "foreach" \in DOMAIN dflt \cup DOMAIN a.kwargs)
          /\ "foreach" \in DOMAIN args
                => args["foreach"] =
                     IF "foreach" \in DOMAIN a.kwargs THEN a.kwargs["foreach"]
                     ELSE IF "foreach" \in DOMAIN dflt THEN dflt["foreach"]
                     ELSE a.foreach

\* C11 witness: the record registered as 'sgd' defines 'betas' and 'foreach'
\* in its defaults; the caller gave another 'betas' in kwargs, lr 0.1 and
\* foreach=True, and the class got the caller's betas and lr and the
\* default's foreach.
C11_Witness ==
    /\ call.op = "create_optimizer" /\ result.exc = "none"
    /\ RecordOf(call.a.opt) = info_SGD
    /\ call.a.kwargs = [k \in {"eps", "betas"} |-> IF k = "eps" THEN "1e-06" ELSE "(0.5, 0.6)"]
    /\ call.a.lr = "0.1" /\ call.a.foreach = "True"
    /\ result.ret.opt_args["betas"] = "(0.5, 0.6)"
    /\ result.ret.opt_args["lr"] = "0.1"
    /\ result.ret.opt_args["foreach"] = "False"

\* C12: the class never receives 'eps' when has_eps is false nor 'betas'
\* when has_betas is false; when has_momentum is true it receives
\* 'momentum', the default's value if the record's defaults define one and
\* otherwise the caller's momentum (0.9 when omitted); when has_momentum is
\* false it receives 'momentum' only from the record's defaults.
C12_CapabilityGates ==
    (call.op = "create_optimizer" /\ result.exc = "none")
    => LET a     == call.a
           info  == RecordOf(a.opt)
           dflt  == DefaultsOf(info)
           args  == result.ret.opt_args
           mom   == IF a.momentum = "omitted" THEN "0.9" ELSE a.momentum
       IN /\ ~info.has_eps => "eps" \notin DOMAIN args
          /\ ~info.has_betas => "betas" \notin DOMAIN args
          /\ info.has_momentum
                => /\ "momentum" \in DOMAIN args
                   /\ args["momentum"] =
                        IF "momentum" \in DOMAIN dflt THEN dflt["momentum"] ELSE mom
          /\ ~info.has_momentum
                => /\ "momentum" \in DOMAIN args <=> "momentum" \in DOMAIN dflt
                   /\ "momentum" \in DOMAIN args => args["momentum"] = dflt["momentum"]

\* C12 witness: the record reached through the alias 'Nest' has
\* has_momentum and not has_betas, and defaults defining both 'momentum' and
\* 'betas'; the caller gave 'eps' and 'betas' in kwargs and momentum 0.0; the
\* class got the default's momentum, the caller's eps and no betas.
C12_Witness ==
    /\ call.op = "create_optimizer" /\ result.exc = "none"
    /\ call.a.opt = n_Nest /\ RecordOf(call.a.opt) = info_my_opt
    /\ "betas" \in DOMAIN call.a.kwargs /\ call.a.momentum = "0.0"
    /\ result.ret.opt_args["momentum"] = "0.5"
    /\ result.ret.opt_args["eps"] = "1e-06"
    /\ "betas" \notin DOMAIN result.ret.opt_args

\* What the optional attributes of a cfg amount to: the dict given as
\* opt_args ({} when absent or None).
OptArgsOf(cfg) == IF opt_args_given(cfg) THEN cfg.opt_args.d ELSE EmptyDict

\* The keys optimizer_kwargs adds on its own, with the attribute of each.
OptionalKeys == {<<"eps", "opt_eps">>, <<"betas", "opt_betas">>, <<"layer_decay", "layer_decay">>}

\* C13: for a cfg carrying opt, lr, weight_decay and momentum,
\* optimizer_kwargs returns a dict that always has these four keys, has
\* 'eps', 'betas' and 'layer_decay' from the cfg attribute iff that attribute
\* exists and is not None, has every entry of cfg.opt_args with the value
\* given there in place of any of the former, and has 'foreach' equal to
\* cfg.opt_foreach when that exists and is not None, else the 'foreach' of
\* cfg.opt_args if any, else not at all; it has no other key.
C13_OptimizerKwargs ==
    (call.op = "optimizer_kwargs" /\ BaseAttrs \subseteq call.cfg.has)
    => LET cfg == call.cfg
           oa  == OptArgsOf(cfg)
           ret == result.ret
       IN /\ result.exc = "none"
          /\ BaseAttrs \subseteq DOMAIN ret
          /\ \A k \in BaseAttrs \ DOMAIN oa : ret[k] = cfg[k]
          /\ \A p \in OptionalKeys :
                p[1] \notin DOMAIN oa
                => /\ p[1] \in DOMAIN ret <=> (p[2] \in cfg.has /\ cfg[p[2]] # "None")
                   /\ p[1] \in DOMAIN ret => ret[p[1]] = cfg[p[2]]
          /\ \A k \in DOMAIN oa \ {"foreach"} : k \in DOMAIN ret /\ ret[k] = oa[k]
          /\ IF "opt_foreach" \in cfg.has /\ cfg.opt_foreach # "None"
             THEN "foreach" \in DOMAIN ret /\ ret["foreach"] = cfg.opt_foreach
             ELSE IF "foreach" \in DOMAIN oa
             THEN "foreach" \in DOMAIN ret /\ ret["foreach"] = oa["foreach"]
             ELSE "foreach" \notin DOMAIN ret
          /\ DOMAIN ret \subseteq
                BaseAttrs \cup {"eps", "betas", "layer_decay", "foreach"} \cup DOMAIN oa

\* C13 witness: cfg.opt_eps, cfg.opt_foreach and a cfg.opt_args with 'eps',
\* 'lr' and 'foreach' are all given; the result has the eps and lr of
\* opt_args and the foreach of cfg.opt_foreach.
C13_Witness ==
    /\ call.op = "optimizer_kwargs" /\ result.exc = "none"
    /\ call.cfg.opt_eps = "1e-06" /\ call.cfg.opt_foreach = "True"
    /\ OptArgsOf(call.cfg) = OptArgsOverride
    /\ result.ret["eps"] = "1e-03"
    /\ result.ret["lr"] = "0.2"
    /\ result.ret["foreach"] = "True"
    /\ "layer_decay" \notin DOMAIN result.ret

\* The operations that read the registry or construct from it.
ReadOps == {"list_optimizers", "get_optimizer_info", "get_optimizer_class",
            "create_optimizer", "create_optimizer_legacy"}

\* C14: a call of list_optimizers, get_optimizer_info, get_optimizer_class
\* or create_optimizer (directly or through the legacy function), returning
\* or raising, leaves the registered names, the record under each name, the
\* defaults dict of each record and the foreach-default set as they were;
\* holding for every step, it holds for every sequence of such calls.
C14_ReadsLeaveRegistry ==
    [][ (pc = "idle" /\ call'.op \in ReadOps)
        => /\ DOMAIN optimizers' = DOMAIN optimizers
           /\ \A k \in DOMAIN optimizers :
                /\ optimizers'[k] = optimizers[k]
                /\ optimizers'[k].defaults = optimizers[k].defaults
           /\ foreach_defaults' = foreach_defaults
      ]_vars

\* C14 witness: after two mutations of the default registry, a
\* create_optimizer call through the alias 'Nest' built an optimizer from a
\* record with defaults, with kwargs and lr given, and the record under the
\* alias and under its own name is still the registered one.
C14_Witness ==
    /\ call.op = "create_optimizer" /\ result.exc = "none"
    /\ is_default /\ nmut = 2
    /\ call.a.opt = n_Nest /\ call.a.lr = "0.1" /\ call.a.kwargs # EmptyDict
    /\ optimizers[lower(n_Nest)] = info_my_opt
    /\ optimizers[n_my_opt] = info_my_opt
    /\ DOMAIN result.ret.opt_args # DOMAIN info_my_opt.defaults.d
====
